---- MODULE Spec2Model ----
(***************************************************************************)
(* RecordingExtractor (spikeextractors/recordingextractor.py): the channel *)
(* property store, the epoch registry and the snippet extraction of the    *)
(* abstract base class, as state machines.                                 *)
(*                                                                         *)
(* Two extractor objects exist, "self" and "other", so that                *)
(* copy_channel_properties has a source that differs from its receiver.    *)
(*                                                                         *)
(* Encoding of Python values:                                              *)
(*   - channel ids are integers; NotAnInt stands for an argument that is   *)
(*     not an instance of int (such as 1.5);                               *)
(*   - property and epoch names are strings; NotAStr stands for an         *)
(*     argument that is a hashable non-string (such as the int 5);         *)
(*   - a dict is a function whose DOMAIN is its key set;                   *)
(*   - an outcome is a record: exc is the exception class raised ("none"   *)
(*     on a normal return) and msg identifies the raise statement.         *)
(***************************************************************************)
EXTENDS Integers, Sequences, FiniteSets, TLC

VARIABLES channel_properties, epochs, num_frames, traces, snippet_out, result

vars == <<channel_properties, epochs, num_frames, traces, snippet_out, result>>

(***************************************************************************)
(* Universe of the model                                                   *)
(***************************************************************************)
Extractors == {"self", "other"}

\* get_channel_ids() of each extractor: fixed for the object's lifetime,
\* not contiguous and not the same on both objects.
ChannelIdList(r) == IF r = "self" THEN <<1, 2>> ELSE <<2>>

Range(s) == {s[i] : i \in DOMAIN s}

get_channel_ids(r) == Range(ChannelIdList(r))

NotAnInt == -1

NotAStr == "<int 5>"

\* Python's order on the str values used here.
NameOrder == <<"gain", "group", "location">>

PropertyNames == {"group", "location"}

PropertyValues == {1, 2}

ChannelIdArgs == {1, 2, 4, NotAnInt}

NameArgs == PropertyNames \cup {NotAStr}

IsInt(x) == x # NotAnInt

IsStr(x) == x # NotAStr

EmptyDict == [k \in {} |-> 0]

DictSet(d, k, v) == [x \in DOMAIN d \cup {k} |-> IF x = k THEN v ELSE d[x]]

DictDel(d, k) == [x \in DOMAIN d \ {k} |-> d[x]]

\* sorted(names): the names of S in ascending str order.
Sorted(S) == SelectSeq(NameOrder, LAMBDA n : n \in S)

(***************************************************************************)
(* Outcomes                                                                *)
(***************************************************************************)
Ok(cp) == [cp |-> cp, exc |-> "none", msg |-> "", val |-> 0, names |-> <<>>]

Raise(cp, exc, msg) == [cp |-> cp, exc |-> exc, msg |-> msg, val |-> 0, names |-> <<>>]

(***************************************************************************)
(* PropertyStore operations. cp is the _channel_properties dict of every   *)
(* extractor; each operation returns the dicts after the call with the     *)
(* call's outcome.                                                         *)
(***************************************************************************)
\* SetChannelProperty without the membership test on get_channel_ids().
SetChannelProperty_NoIdCheck(cp, r, channel_id, property_name, value) ==
    IF ~IsInt(channel_id)
    THEN Raise(cp, "TypeError", "must be an int")
    ELSE LET cp1 == IF channel_id \notin DOMAIN cp[r]
                    THEN [cp EXCEPT ![r] = DictSet(cp[r], channel_id, EmptyDict)]
                    ELSE cp
         IN IF IsStr(property_name)
            THEN Ok([cp1 EXCEPT ![r] =
                        DictSet(cp1[r], channel_id,
                                DictSet(cp1[r][channel_id], property_name, value))])
            ELSE Raise(cp1, "TypeError", "must be a string")

SetChannelProperty(cp, r, channel_id, property_name, value) ==
    IF ~IsInt(channel_id)
    THEN Raise(cp, "TypeError", "must be an int")
    ELSE IF channel_id \notin get_channel_ids(r)
    THEN Raise(cp, "ValueError", "is not a valid channel_id")
    ELSE LET cp1 == IF channel_id \notin DOMAIN cp[r]
                    THEN [cp EXCEPT ![r] = DictSet(cp[r], channel_id, EmptyDict)]
                    ELSE cp
         IN IF IsStr(property_name)
            THEN Ok([cp1 EXCEPT ![r] =
                        DictSet(cp1[r], channel_id,
                                DictSet(cp1[r][channel_id], property_name, value))])
            ELSE Raise(cp1, "TypeError", "must be a string")

GetChannelProperty(cp, r, channel_id, property_name) ==
    IF ~IsInt(channel_id)
    THEN Raise(cp, "TypeError", "must be an int")
    ELSE IF channel_id \notin get_channel_ids(r)
    THEN Raise(cp, "ValueError", "is not a valid channel_id")
    ELSE IF channel_id \notin DOMAIN cp[r]
    THEN Raise(cp, "ValueError", "no properties found for channel")
    ELSE IF property_name \notin DOMAIN cp[r][channel_id]
    THEN Raise(cp, "RuntimeError", "has not been added to channel")
    ELSE IF ~IsStr(property_name)
    THEN Raise(cp, "TypeError", "must be a string")
    ELSE [Ok(cp) EXCEPT !.val = cp[r][channel_id][property_name]]

GetChannelPropertyNames(cp, r, channel_id) ==
    IF ~IsInt(channel_id)
    THEN Raise(cp, "TypeError", "must be an int")
    ELSE IF channel_id \notin get_channel_ids(r)
    THEN Raise(cp, "ValueError", "is not a valid channel_id")
    ELSE LET cp1 == IF channel_id \notin DOMAIN cp[r]
                    THEN [cp EXCEPT ![r] = DictSet(cp[r], channel_id, EmptyDict)]
                    ELSE cp
         IN [Ok(cp1) EXCEPT !.names = Sorted(DOMAIN cp1[r][channel_id])]

\* A channel_ids argument: None, a single int, or a list of channel ids.
NoneArg == [kind |-> "None", id |-> 0, ids |-> <<>>]

IntArg(c) == [kind |-> "int", id |-> c, ids |-> <<>>]

ListArg(l) == [kind |-> "list", id |-> 0, ids |-> l]

RECURSIVE SharedLoop_Union(_, _, _, _, _)
\* SharedLoop accumulating with union where the code intersects.
SharedLoop_Union(cp, r, ids, i, curr_property_name_set) ==
    IF i > Len(ids)
    THEN [Ok(cp) EXCEPT !.names = Sorted(curr_property_name_set)]
    ELSE LET o == GetChannelPropertyNames(cp, r, ids[i])
         IN IF o.exc # "none"
            THEN o
            ELSE SharedLoop_Union(o.cp, r, ids, i + 1,
                                  curr_property_name_set \cup Range(o.names))

RECURSIVE SharedLoop(_, _, _, _, _)
\* The for loop of get_shared_channel_property_names over channel_ids[1:]
\* (i is the 1-based position of the next channel id).
SharedLoop(cp, r, ids, i, curr_property_name_set) ==
    IF i > Len(ids)
    THEN [Ok(cp) EXCEPT !.names = Sorted(curr_property_name_set)]
    ELSE LET o == GetChannelPropertyNames(cp, r, ids[i])
         IN IF o.exc # "none"
            THEN o
            ELSE SharedLoop(o.cp, r, ids, i + 1,
                            curr_property_name_set \cap Range(o.names))

GetSharedChannelPropertyNames(cp, r, arg) ==
    LET channel_ids == IF arg.kind = "None" THEN ChannelIdList(r) ELSE arg.ids
    IN IF Len(channel_ids) = 0
       THEN Raise(cp, "IndexError", "list index out of range")
       ELSE LET o == GetChannelPropertyNames(cp, r, channel_ids[1])
            IN IF o.exc # "none"
               THEN o
               ELSE SharedLoop(o.cp, r, channel_ids, 2, Range(o.names))

RECURSIVE CopyNames_KeepExisting(_, _, _, _, _, _)
\* CopyNames that does not overwrite a name the receiver already has.
CopyNames_KeepExisting(cp, r, recording, channel_id, curr_property_names, j) ==
    IF j > Len(curr_property_names)
    THEN Ok(cp)
    ELSE LET g == GetChannelProperty(cp, recording, channel_id, curr_property_names[j])
             has == /\ channel_id \in DOMAIN cp[r]
                    /\ curr_property_names[j] \in DOMAIN cp[r][channel_id]
         IN IF g.exc # "none"
            THEN g
            ELSE LET s == IF has THEN Ok(g.cp)
                          ELSE SetChannelProperty(g.cp, r, channel_id,
                                                  curr_property_names[j], g.val)
                 IN IF s.exc # "none"
                    THEN s
                    ELSE CopyNames_KeepExisting(s.cp, r, recording, channel_id,
                                                curr_property_names, j + 1)

RECURSIVE CopyNames(_, _, _, _, _, _)
\* The inner loop of copy_channel_properties: for each name of the source
\* channel, read the value from recording and set it on self.
CopyNames(cp, r, recording, channel_id, curr_property_names, j) ==
    IF j > Len(curr_property_names)
    THEN Ok(cp)
    ELSE LET g == GetChannelProperty(cp, recording, channel_id, curr_property_names[j])
         IN IF g.exc # "none"
            THEN g
            ELSE LET s == SetChannelProperty(g.cp, r, channel_id,
                                             curr_property_names[j], g.val)
                 IN IF s.exc # "none"
                    THEN s
                    ELSE CopyNames(s.cp, r, recording, channel_id,
                                   curr_property_names, j + 1)

\* The body shared by both branches of copy_channel_properties for one id.
CopyChannel(cp, r, recording, channel_id) ==
    LET n == GetChannelPropertyNames(cp, recording, channel_id)
    IN IF n.exc # "none"
       THEN n
       ELSE CopyNames(n.cp, r, recording, channel_id, n.names, 1)

RECURSIVE CopyLoop(_, _, _, _, _)
CopyLoop(cp, r, recording, ids, i) ==
    IF i > Len(ids)
    THEN Ok(cp)
    ELSE LET o == CopyChannel(cp, r, recording, ids[i])
         IN IF o.exc # "none"
            THEN o
            ELSE CopyLoop(o.cp, r, recording, ids, i + 1)

CopyChannelProperties(cp, r, recording, arg) ==
    IF arg.kind = "int"
    THEN CopyChannel(cp, r, recording, arg.id)
    ELSE CopyLoop(cp, r, recording,
                  IF arg.kind = "None" THEN ChannelIdList(recording) ELSE arg.ids, 1)

\* ClearChannelProperty deleting the channel's whole record.
ClearChannelProperty_DropRecord(cp, r, channel_id, property_name) ==
    IF channel_id \in DOMAIN cp[r]
    THEN IF property_name \in DOMAIN cp[r][channel_id]
         THEN Ok([cp EXCEPT ![r] = DictDel(cp[r], channel_id)])
         ELSE Ok(cp)
    ELSE Ok(cp)

ClearChannelProperty(cp, r, channel_id, property_name) ==
    IF channel_id \in DOMAIN cp[r]
    THEN IF property_name \in DOMAIN cp[r][channel_id]
         THEN Ok([cp EXCEPT ![r] =
                     DictSet(cp[r], channel_id, DictDel(cp[r][channel_id], property_name))])
         ELSE Ok(cp)
    ELSE Ok(cp)

RECURSIVE ClearLoop(_, _, _, _, _)
ClearLoop(cp, r, property_name, ids, i) ==
    IF i > Len(ids)
    THEN Ok(cp)
    ELSE ClearLoop(ClearChannelProperty(cp, r, ids[i], property_name).cp,
                   r, property_name, ids, i + 1)

ClearChannelsProperty(cp, r, property_name, arg) ==
    ClearLoop(cp, r, property_name,
              IF arg.kind = "None" THEN ChannelIdList(r) ELSE arg.ids, 1)

(***************************************************************************)
(* Inputs of the property-store calls                                      *)
(***************************************************************************)
MaxListLen == 2

ListChannelIds == {1, 2}

ChannelIdLists == UNION {[1..n -> ListChannelIds] : n \in 0..MaxListLen}

ListArgs == {NoneArg} \cup {ListArg(l) : l \in ChannelIdLists}

CopyArgs == ListArgs \cup {IntArg(c) : c \in ListChannelIds}

Outcome(op, o) == [op |-> op, exc |-> o.exc]

InitResult == [op |-> "init", exc |-> "none"]

\* __init__: self._epochs = {} and self._channel_properties = {}.
InitStores ==
    /\ channel_properties = [r \in Extractors |-> EmptyDict]
    /\ epochs = <<>>
    /\ result = InitResult

OtherParts == <<epochs, num_frames, traces, snippet_out>>

(***************************************************************************)
(* Actions of the property store                                           *)
(***************************************************************************)
set_channel_property ==
    \E r \in Extractors, c \in ChannelIdArgs, n \in NameArgs, v \in PropertyValues :
        \E o \in {SetChannelProperty(channel_properties, r, c, n, v)} :
           /\ channel_properties' = o.cp
           /\ result' = Outcome("set_channel_property", o)
           /\ UNCHANGED OtherParts

get_channel_property ==
    \E r \in Extractors, c \in ChannelIdArgs, n \in NameArgs :
        \E o \in {GetChannelProperty(channel_properties, r, c, n)} :
           /\ channel_properties' = o.cp
           /\ result' = Outcome("get_channel_property", o)
           /\ UNCHANGED OtherParts

get_channel_property_names ==
    \E r \in Extractors, c \in ChannelIdArgs :
        \E o \in {GetChannelPropertyNames(channel_properties, r, c)} :
           /\ channel_properties' = o.cp
           /\ result' = Outcome("get_channel_property_names", o)
           /\ UNCHANGED OtherParts

get_shared_channel_property_names ==
    \E r \in Extractors, a \in ListArgs :
        \E o \in {GetSharedChannelPropertyNames(channel_properties, r, a)} :
           /\ channel_properties' = o.cp
           /\ result' = Outcome("get_shared_channel_property_names", o)
           /\ UNCHANGED OtherParts

copy_channel_properties ==
    \E r \in Extractors, recording \in Extractors, a \in CopyArgs :
        \E o \in {CopyChannelProperties(channel_properties, r, recording, a)} :
           /\ channel_properties' = o.cp
           /\ result' = Outcome("copy_channel_properties", o)
           /\ UNCHANGED OtherParts

clear_channel_property ==
    \E r \in Extractors, c \in ChannelIdArgs, n \in NameArgs :
        \E o \in {ClearChannelProperty(channel_properties, r, c, n)} :
           /\ channel_properties' = o.cp
           /\ result' = Outcome("clear_channel_property", o)
           /\ UNCHANGED OtherParts

clear_channels_property ==
    \E r \in Extractors, n \in NameArgs, a \in ListArgs :
        \E o \in {ClearChannelsProperty(channel_properties, r, n, a)} :
           /\ channel_properties' = o.cp
           /\ result' = Outcome("clear_channels_property", o)
           /\ UNCHANGED OtherParts

Init ==
    /\ InitStores
    /\ num_frames = 0
    /\ traces = <<>>
    /\ snippet_out = <<>>

Next ==
    \/ set_channel_property
    \/ get_channel_property
    \/ get_channel_property_names
    \/ get_shared_channel_property_names
    \/ copy_channel_properties
    \/ clear_channel_property
    \/ clear_channels_property

Spec == Init /\ [][Next]_vars

(***************************************************************************)
(* Properties of the property store                                        *)
(***************************************************************************)
HasProperty(store, c, n) == c \in DOMAIN store /\ n \in DOMAIN store[c]

\* store[c][n] as a one-element tuple, or <<>> when (c, n) is not set.
Lookup(store, c, n) == IF HasProperty(store, c, n) THEN <<store[c][n]>> ELSE <<>>

AllChannelIds == UNION {get_channel_ids(r) : r \in Extractors}

\* A channel that currently has no property set: no record, or an empty one.
NoPropertySet(store, c) == \A n \in NameArgs : ~HasProperty(store, c, n)

ValidLists(r) == {l \in ChannelIdLists : Len(l) > 0 /\ Range(l) \subseteq get_channel_ids(r)}

NameIndex(n) == CHOOSE i \in DOMAIN NameOrder : NameOrder[i] = n

StrictlyAscending(names) ==
    \A i, j \in DOMAIN names : i < j => NameIndex(names[i]) < NameIndex(names[j])

\* C1 (as claimed): get_channel_property(c, n) on a valid channel c that
\* currently has no property set fails with the "no properties" kind, never
\* with the "name not found" kind.
C1_NoPropertiesKind ==
    \A r \in Extractors : \A c \in get_channel_ids(r) : \A n \in PropertyNames :
        NoPropertySet(channel_properties[r], c) =>
            \A o \in {GetChannelProperty(channel_properties, r, c, n)} :
               /\ o.exc = "ValueError"
               /\ o.msg = "no properties found for channel"

\* The cause of a get_channel_property failure, from the arguments and store.
Cause(cp, r, c, n) ==
    IF c \notin get_channel_ids(r) THEN "invalid channel"
    ELSE IF NoPropertySet(cp[r], c) THEN "no properties"
    ELSE IF ~HasProperty(cp[r], c, n) THEN "name not found"
    ELSE "none"

FailureKind(o) == <<o.exc, o.msg>>

\* C2 (as claimed): the three causes of a get_channel_property failure
\* (invalid channel id, valid channel without properties, valid channel with
\* other properties only) give pairwise distinct failure kinds.
C2_DistinctFailureKinds ==
    \A r \in Extractors : \A c1, c2 \in ChannelIdArgs \ {NotAnInt} :
        \A n1, n2 \in PropertyNames :
            LET k1 == Cause(channel_properties, r, c1, n1)
                k2 == Cause(channel_properties, r, c2, n2)
            IN (k1 # "none" /\ k2 # "none" /\ k1 # k2) =>
                   FailureKind(GetChannelProperty(channel_properties, r, c1, n1))
                       # FailureKind(GetChannelProperty(channel_properties, r, c2, n2))

\* C3: every channel id with a record in a store belongs to the extractor's
\* get_channel_ids(), and set_channel_property with an integer id outside
\* get_channel_ids() raises ValueError and leaves the store as it was.
C3_RecordsAreValidChannels ==
    /\ \A r \in Extractors : DOMAIN channel_properties[r] \subseteq get_channel_ids(r)
    /\ \A r \in Extractors : \A c \in ChannelIdArgs : \A n \in NameArgs :
         \A v \in PropertyValues :
            (IsInt(c) /\ c \notin get_channel_ids(r)) =>
                \A o \in {SetChannelProperty(channel_properties, r, c, n, v)} :
                   /\ o.exc = "ValueError"
                   /\ o.cp = channel_properties

C3_Witness ==
    /\ result.op = "set_channel_property"
    /\ result.exc = "ValueError"
    /\ HasProperty(channel_properties["other"], 2, "group")
    /\ HasProperty(channel_properties["self"], 1, "group")

\* C4 (as claimed): on a valid channel id a non-string property name makes
\* set_channel_property and get_channel_property raise TypeError, whatever
\* the store holds.
C4_NonStringNameTypeError ==
    \A r \in Extractors : \A c \in get_channel_ids(r) : \A v \in PropertyValues :
        /\ SetChannelProperty(channel_properties, r, c, NotAStr, v).exc = "TypeError"
        /\ GetChannelProperty(channel_properties, r, c, NotAStr).exc = "TypeError"

\* C5: for a non-empty list of valid channel ids (or the full channel list
\* when channel_ids is None) get_shared_channel_property_names returns, in
\* ascending order without duplicates, exactly the names set on every channel
\* of the list; for a one-element list, that channel's own names.
C5_SharedNamesAreIntersection ==
    \A r \in Extractors :
        /\ \A l \in ValidLists(r) :
             \A o \in {GetSharedChannelPropertyNames(channel_properties, r, ListArg(l))} :
                /\ o.exc = "none"
                /\ StrictlyAscending(o.names)
                /\ Range(o.names) =
                     {n \in PropertyNames :
                        \A i \in DOMAIN l : HasProperty(channel_properties[r], l[i], n)}
                /\ Len(l) = 1 =>
                     Range(o.names) =
                       {n \in PropertyNames : HasProperty(channel_properties[r], l[1], n)}
        /\ \A o \in {GetSharedChannelPropertyNames(channel_properties, r, NoneArg)} :
              /\ o.exc = "none"
              /\ StrictlyAscending(o.names)
              /\ Range(o.names) =
                   {n \in PropertyNames :
                      \A c \in get_channel_ids(r) : HasProperty(channel_properties[r], c, n)}

C5_Witness ==
    /\ result.op = "get_shared_channel_property_names"
    /\ result.exc = "none"
    /\ DOMAIN channel_properties["self"] = {1, 2}
    /\ DOMAIN channel_properties["self"][1] = {"group", "location"}
    /\ DOMAIN channel_properties["self"][2] = {"location"}

\* The channel ids copy_channel_properties iterates over.
CopiedIds(recording, arg) ==
    IF arg.kind = "int" THEN {arg.id}
    ELSE IF arg.kind = "None" THEN get_channel_ids(recording)
    ELSE Range(arg.ids)

\* C6: when copy_channel_properties(recording, channel_ids) completes on a
\* receiver whose channel ids contain every id of channel_ids, the receiver
\* holds the source's value for every (channel, name) the source has on a
\* copied channel, every other receiver entry is as before, no other entry
\* appears, and the source's entries are as before.
C6_CopyFrame ==
    \A r \in Extractors : \A recording \in Extractors : \A a \in CopyArgs :
        \A o \in {CopyChannelProperties(channel_properties, r, recording, a)} :
        LET ids == CopiedIds(recording, a)
            src == channel_properties[recording]
            old == channel_properties[r]
        IN (ids \subseteq get_channel_ids(r) /\ o.exc = "none") =>
              \A c \in AllChannelIds : \A n \in PropertyNames :
                 /\ Lookup(o.cp[r], c, n) =
                       IF c \in ids /\ HasProperty(src, c, n)
                       THEN <<src[c][n]>>
                       ELSE Lookup(old, c, n)
                 /\ Lookup(o.cp[recording], c, n) = Lookup(src, c, n)

C6_Witness ==
    /\ result.op = "copy_channel_properties"
    /\ result.exc = "none"
    /\ HasProperty(channel_properties["other"], 2, "group")
    /\ HasProperty(channel_properties["self"], 2, "group")
    /\ channel_properties["self"][2]["group"] = channel_properties["other"][2]["group"]
    /\ HasProperty(channel_properties["self"], 2, "location")
    /\ ~HasProperty(channel_properties["other"], 2, "location")
    /\ HasProperty(channel_properties["self"], 1, "group")

ClearedIds(r, arg) == IF arg.kind = "None" THEN get_channel_ids(r) ELSE Range(arg.ids)

\* C7: clear_channel_property and clear_channels_property never raise, a
\* second identical clear changes nothing, clearing an absent entry leaves
\* the store as it was, and a clear removes exactly the named property on
\* the named channels.
C7_ClearIdempotent ==
    \A r \in Extractors : \A n \in NameArgs :
        /\ \A c \in ChannelIdArgs :
             \A o \in {ClearChannelProperty(channel_properties, r, c, n)} :
                /\ o.exc = "none"
                /\ ClearChannelProperty(o.cp, r, c, n).cp = o.cp
                /\ ~HasProperty(channel_properties[r], c, n) => o.cp = channel_properties
                /\ \A d \in AllChannelIds : \A m \in PropertyNames :
                      Lookup(o.cp[r], d, m) =
                        IF d = c /\ m = n THEN <<>>
                        ELSE Lookup(channel_properties[r], d, m)
                /\ \A q \in Extractors \ {r} : o.cp[q] = channel_properties[q]
        /\ \A a \in ListArgs :
             \A o \in {ClearChannelsProperty(channel_properties, r, n, a)} :
             LET ids == ClearedIds(r, a)
             IN /\ o.exc = "none"
                /\ ClearChannelsProperty(o.cp, r, n, a).cp = o.cp
                /\ (\A c \in ids : ~HasProperty(channel_properties[r], c, n))
                      => o.cp = channel_properties
                /\ \A d \in AllChannelIds : \A m \in PropertyNames :
                      Lookup(o.cp[r], d, m) =
                        IF d \in ids /\ m = n THEN <<>>
                        ELSE Lookup(channel_properties[r], d, m)
                /\ \A q \in Extractors \ {r} : o.cp[q] = channel_properties[q]

C7_Witness ==
    /\ result.op \in {"clear_channel_property", "clear_channels_property"}
    /\ result.exc = "none"
    /\ 1 \in DOMAIN channel_properties["self"]
    /\ DOMAIN channel_properties["self"][1] = {"location"}
    /\ 2 \in DOMAIN channel_properties["self"]
    /\ DOMAIN channel_properties["self"][2] = {}
    /\ HasProperty(channel_properties["other"], 2, "group")

\* What a caller sees of a call's outcome.
Seen(o) == <<o.exc, o.msg, o.val, o.names>>

\* C15: a set_channel_property that fails (non-integer channel id, unknown
\* channel id, non-string property name) leaves the store as it was, and every
\* later get_channel_property and get_channel_property_names gives the outcome
\* it would have given without the failing call.
C15_FailedSetLeavesStore ==
    \A r \in Extractors : \A c \in ChannelIdArgs : \A n \in NameArgs :
      \A v \in PropertyValues :
        \A o \in {SetChannelProperty(channel_properties, r, c, n, v)} :
           o.exc # "none" =>
              /\ o.cp = channel_properties
              /\ \A c2 \in ChannelIdArgs :
                    /\ Seen(GetChannelPropertyNames(o.cp, r, c2))
                          = Seen(GetChannelPropertyNames(channel_properties, r, c2))
                    /\ \A n2 \in NameArgs :
                          Seen(GetChannelProperty(o.cp, r, c2, n2))
                            = Seen(GetChannelProperty(channel_properties, r, c2, n2))

(***************************************************************************)
(* EpochRegistry. _epochs is a dict: here the sequence of its items in     *)
(* insertion order (assigning to an existing key keeps the key's place).   *)
(***************************************************************************)
MaxEpochFrame == 1

EpochNames == {"a", "b", "c"}

\* Python's order on the str values used as epoch names.
EpochNameOrder == <<"a", "b", "c">>

EpochNameArgs == EpochNames \cup {NotAStr}

EpochFrames == 0..MaxEpochFrame

\* None passed as end_frame ("include the entire recording after the
\* start_frame"); frames are never negative.
NoneFrame == -2

\* The end_frame arguments of an epoch that starts at start_frame.
EpochEndArgs(start_frame) == (start_frame..MaxEpochFrame) \cup {NoneFrame}

NoInfo == [start_frame |-> -1, end_frame |-> -1]

NoView == [parent |-> "", start_frame |-> -1, end_frame |-> -1]

EOk(ep) == [ep |-> ep, exc |-> "none", msg |-> "", info |-> NoInfo,
            names |-> <<>>, view |-> NoView]

ERaise(ep, exc, msg) == [EOk(ep) EXCEPT !.exc = exc, !.msg = msg]

\* list(self._epochs.keys())
EpochKeys(ep) == [i \in DOMAIN ep |-> ep[i].name]

KeyIndex(ep, epoch_name) == CHOOSE i \in DOMAIN ep : ep[i].name = epoch_name

\* Basic casting of the two frame arguments: an int is returned as it is, and
\* so is None. The function is given the two arguments only, not the recording.
cast_start_end_frame(start_frame, end_frame) == <<start_frame, end_frame>>

\* add_epoch keeping the first registration of a name.
AddEpoch_KeepFirst(ep, epoch_name, start_frame, end_frame) ==
    IF IsStr(epoch_name)
    THEN IF epoch_name \in Range(EpochKeys(ep))
         THEN EOk(ep)
         ELSE EOk(Append(ep, [name |-> epoch_name, start_frame |-> start_frame,
                                end_frame |-> end_frame]))
    ELSE ERaise(ep, "TypeError", "epoch_name must be a string")

AddEpoch(ep, epoch_name, start_frame, end_frame) ==
    IF IsStr(epoch_name)
    THEN LET se == cast_start_end_frame(start_frame, end_frame)
             item == [name |-> epoch_name, start_frame |-> se[1], end_frame |-> se[2]]
         IN IF epoch_name \in Range(EpochKeys(ep))
            THEN EOk([ep EXCEPT ![KeyIndex(ep, epoch_name)] = item])
            ELSE EOk(Append(ep, item))
    ELSE ERaise(ep, "TypeError", "epoch_name must be a string")

RemoveEpoch(ep, epoch_name) ==
    IF IsStr(epoch_name)
    THEN IF epoch_name \in Range(EpochKeys(ep))
         THEN EOk(SelectSeq(ep, LAMBDA item : item.name # epoch_name))
         ELSE ERaise(ep, "RuntimeError", "This epoch has not been added")
    ELSE ERaise(ep, "TypeError", "epoch_name must be a string")

GetEpochInfo(ep, epoch_name) ==
    IF IsStr(epoch_name)
    THEN IF epoch_name \in Range(EpochKeys(ep))
         THEN [EOk(ep) EXCEPT !.info =
                  [start_frame |-> ep[KeyIndex(ep, epoch_name)].start_frame,
                   end_frame |-> ep[KeyIndex(ep, epoch_name)].end_frame]]
         ELSE ERaise(ep, "RuntimeError", "This epoch has not been added")
    ELSE ERaise(ep, "TypeError", "epoch_name must be a string")

EpochNameIndex(n) == CHOOSE i \in DOMAIN EpochNameOrder : EpochNameOrder[i] = n

\* Python's < on the tuples (start_frame, epoch_name) that get_epoch_names zips.
TupleLess(p, q) ==
    \/ p[1] < q[1]
    \/ p[1] = q[1] /\ EpochNameIndex(p[2]) < EpochNameIndex(q[2])

\* sorted() leaving the tuples in the order of the list.
SortedTuples_AsInserted(zipped) == zipped

RECURSIVE SortedTuples(_)
\* sorted(zip(epoch_start_frames, epoch_names)): a stable insertion of each
\* tuple, in list order, behind the tuples that are not greater than it.
SortedTuples(zipped) ==
    IF Len(zipped) = 0
    THEN <<>>
    ELSE LET t == zipped[Len(zipped)]
             rest == SortedTuples(SubSeq(zipped, 1, Len(zipped) - 1))
         IN SelectSeq(rest, LAMBDA u : ~TupleLess(t, u))
            \o <<t>>
            \o SelectSeq(rest, LAMBDA u : TupleLess(t, u))

GetEpochNames(ep) ==
    LET epoch_names == EpochKeys(ep)
    IN IF Len(epoch_names) = 0
       THEN EOk(ep)
       ELSE LET zipped == [i \in DOMAIN ep |->
                              <<GetEpochInfo(ep, epoch_names[i]).info.start_frame,
                                epoch_names[i]>>]
                sorted == SortedTuples(zipped)
            IN [EOk(ep) EXCEPT !.names = [i \in DOMAIN sorted |-> sorted[i][2]]]

\* The frame-range view built for an epoch: it maps local frame f to the
\* parent's frame f + start_frame and declares end_frame - start_frame frames.
SubRecordingExtractor(parent_recording, start_frame, end_frame) ==
    [parent |-> parent_recording, start_frame |-> start_frame, end_frame |-> end_frame]

GetEpoch(ep, epoch_name) ==
    LET i == GetEpochInfo(ep, epoch_name)
    IN IF i.exc # "none"
       THEN i
       ELSE [EOk(ep) EXCEPT !.view =
                SubRecordingExtractor("self", i.info.start_frame, i.info.end_frame)]

EpochOutcome(op, o) == [op |-> op, exc |-> o.exc]

add_epoch ==
    \E n \in EpochNameArgs, s \in EpochFrames :
      \E e \in EpochEndArgs(s) :
        \E o \in {AddEpoch(epochs, n, s, e)} :
           /\ epochs' = o.ep
           /\ result' = EpochOutcome("add_epoch", o)
           /\ UNCHANGED <<channel_properties, num_frames, traces, snippet_out>>

remove_epoch ==
    \E n \in EpochNameArgs :
        \E o \in {RemoveEpoch(epochs, n)} :
           /\ epochs' = o.ep
           /\ result' = EpochOutcome("remove_epoch", o)
           /\ UNCHANGED <<channel_properties, num_frames, traces, snippet_out>>

get_epoch_names ==
    \E o \in {GetEpochNames(epochs)} :
       /\ epochs' = o.ep
       /\ result' = EpochOutcome("get_epoch_names", o)
       /\ UNCHANGED <<channel_properties, num_frames, traces, snippet_out>>

get_epoch_info ==
    \E n \in EpochNameArgs :
        \E o \in {GetEpochInfo(epochs, n)} :
           /\ epochs' = o.ep
           /\ result' = EpochOutcome("get_epoch_info", o)
           /\ UNCHANGED <<channel_properties, num_frames, traces, snippet_out>>

get_epoch ==
    \E n \in EpochNameArgs :
        \E o \in {GetEpoch(epochs, n)} :
           /\ epochs' = o.ep
           /\ result' = EpochOutcome("get_epoch", o)
           /\ UNCHANGED <<channel_properties, num_frames, traces, snippet_out>>

InitEpochs ==
    /\ channel_properties = [r \in Extractors |-> EmptyDict]
    /\ epochs = <<>>
    /\ result = InitResult
    /\ num_frames = MaxEpochFrame
    /\ traces = <<>>
    /\ snippet_out = <<>>

NextEpochs ==
    \/ add_epoch
    \/ remove_epoch
    \/ get_epoch_names
    \/ get_epoch_info
    \/ get_epoch

SpecEpochs == InitEpochs /\ [][NextEpochs]_vars

(***************************************************************************)
(* Properties of the epoch registry                                        *)
(***************************************************************************)
Registered(ep, n) == \E i \in DOMAIN ep : ep[i].name = n

\* The registry as a map: the info stored under n, or NoInfo.
InfoOf(ep, n) ==
    IF Registered(ep, n)
    THEN [start_frame |-> ep[KeyIndex(ep, n)].start_frame,
          end_frame |-> ep[KeyIndex(ep, n)].end_frame]
    ELSE NoInfo

NoDuplicates(seq) == \A i, j \in DOMAIN seq : seq[i] = seq[j] => i = j

\* C10: the registry is a finite map from name to frame range. A name is
\* registered at most once and listed once by get_epoch_names; add_epoch
\* makes get_epoch_info(name) return the added start and end (overwriting an
\* earlier add) and changes no other name; remove_epoch of a registered name
\* removes that name only; get_epoch_info, get_epoch and remove_epoch raise
\* RuntimeError exactly when the string name is not registered, and then the
\* registry is as before.
C10_RegistryIsFiniteMap ==
    /\ NoDuplicates(EpochKeys(epochs))
    /\ \A o \in {GetEpochNames(epochs)} :
          /\ o.exc = "none"
          /\ o.ep = epochs
          /\ NoDuplicates(o.names)
          /\ Range(o.names) = {n \in EpochNames : Registered(epochs, n)}
    /\ \A n \in EpochNames :
          /\ \A s \in EpochFrames : \A e \in s..MaxEpochFrame :
                \A o \in {AddEpoch(epochs, n, s, e)} :
                   /\ o.exc = "none"
                   /\ GetEpochInfo(o.ep, n).exc = "none"
                   /\ GetEpochInfo(o.ep, n).info = [start_frame |-> s, end_frame |-> e]
                   /\ \A m \in EpochNames \ {n} : InfoOf(o.ep, m) = InfoOf(epochs, m)
          /\ \A o \in {RemoveEpoch(epochs, n)} :
                /\ o.exc = "RuntimeError" <=> ~Registered(epochs, n)
                /\ o.exc \in {"none", "RuntimeError"}
                /\ o.exc = "RuntimeError" => o.ep = epochs
                /\ o.exc = "none" =>
                      /\ ~Registered(o.ep, n)
                      /\ \A m \in EpochNames \ {n} : InfoOf(o.ep, m) = InfoOf(epochs, m)
          /\ \A o \in {GetEpochInfo(epochs, n)} :
                /\ o.exc = "RuntimeError" <=> ~Registered(epochs, n)
                /\ o.exc \in {"none", "RuntimeError"}
                /\ o.ep = epochs
                /\ o.exc = "none" => o.info = InfoOf(epochs, n)
          /\ \A o \in {GetEpoch(epochs, n)} :
                /\ o.exc = "RuntimeError" <=> ~Registered(epochs, n)
                /\ o.exc \in {"none", "RuntimeError"}
                /\ o.ep = epochs

C10_Witness ==
    /\ result.op = "remove_epoch"
    /\ result.exc = "none"
    /\ Len(epochs) = 2
    /\ epochs[1] = [name |-> "b", start_frame |-> 1, end_frame |-> 1]
    /\ epochs[2] = [name |-> "a", start_frame |-> 0, end_frame |-> 1]

\* The one-to-one maps of 1..n onto itself.
Perms(n) == {p \in [1..n -> 1..n] : \A i, j \in 1..n : p[i] = p[j] => i = j}

DistinctStarts(ep) ==
    \A i, j \in DOMAIN ep : ep[i].start_frame = ep[j].start_frame => i = j

\* C11: get_epoch_names returns every registered name once, with start_frame
\* non-decreasing along the list; when the start frames are distinct the list
\* is the same for every insertion order of the same epochs; and the call
\* leaves the registry as it was.
C11_EpochNamesSortedByStart ==
    \A o \in {GetEpochNames(epochs)} :
       /\ o.exc = "none"
       /\ o.ep = epochs
       /\ Len(o.names) = Len(epochs)
       /\ NoDuplicates(o.names)
       /\ Range(o.names) = Range(EpochKeys(epochs))
       /\ \A i, j \in DOMAIN o.names :
             i < j => InfoOf(epochs, o.names[i]).start_frame
                        <= InfoOf(epochs, o.names[j]).start_frame
       /\ DistinctStarts(epochs) =>
             \A p \in Perms(Len(epochs)) :
                GetEpochNames([i \in 1..Len(epochs) |-> epochs[p[i]]]).names = o.names

\* Three epochs inserted with the earliest start last are listed with it first.
C11_Witness ==
    /\ result.op = "get_epoch_names"
    /\ Len(epochs) = 3
    /\ EpochKeys(epochs) = <<"c", "a", "b">>
    /\ epochs[1].start_frame = 1
    /\ epochs[2].start_frame = 1
    /\ epochs[3].start_frame = 0
    /\ GetEpochNames(epochs).names = <<"b", "a", "c">>

\* C12: add_epoch(name, start_frame, None) resolves the end at add time:
\* get_epoch_info(name) then reports end_frame = get_num_frames().
C12_NoneEndResolvedAtAdd ==
    \A n \in EpochNames, s \in EpochFrames :
       \A o \in {AddEpoch(epochs, n, s, NoneFrame)} :
          /\ o.exc = "none"
          /\ GetEpochInfo(o.ep, n).info.end_frame = num_frames

\* The place of name n in a list of names.
PositionIn(names, n) == CHOOSE i \in DOMAIN names : names[i] = n

\* C14: get_epoch_names is stable on start_frame: epochs with the same
\* start_frame are listed in the order of their insertion into the registry.
C14_TiesKeepInsertionOrder ==
    \A o \in {GetEpochNames(epochs)} :
       \A i, j \in DOMAIN epochs :
          (i < j /\ epochs[i].start_frame = epochs[j].start_frame) =>
             PositionIn(o.names, epochs[i].name) < PositionIn(o.names, epochs[j].name)

(***************************************************************************)
(* SnippetExtractor: get_snippets on the extractor "self".                 *)
(* traces[c][f] is the sample of channel c at frame f, 0 <= f < num_frames.*)
(* A snippet chunk is a sequence (one entry per requested channel) of      *)
(* sample sequences; position j of the code's array is index j + 1 here.   *)
(***************************************************************************)
MaxFrames == 3

MaxRefs == 2

MaxSnippetLen == 4

MaxSide == 2

\* The recording's samples: never zero, and different at every frame.
Sample(c, f) == 10 * c + f + 1

\* int(x / 2) for an int x: true division, then truncation towards zero.
IntHalf(x) == IF x >= 0 THEN x \div 2 ELSE -((-x) \div 2)

ScalarLen(n) == [kind |-> "scalar", len |-> n, before |-> 0, after |-> 0]

PairLen(b, a) == [kind |-> "pair", len |-> 0, before |-> b, after |-> a]

\* snippet_len_before with the extra sample of an odd length put after.
SnippetLenBefore_Floor(snippet_len) ==
    IF snippet_len.kind = "pair" THEN snippet_len.before ELSE IntHalf(snippet_len.len)

SnippetLenBefore(snippet_len) ==
    IF snippet_len.kind = "pair" THEN snippet_len.before ELSE IntHalf(snippet_len.len + 1)

SnippetLenAfter(snippet_len) ==
    IF snippet_len.kind = "pair"
    THEN snippet_len.after
    ELSE snippet_len.len - SnippetLenBefore(snippet_len)

\* The backend's get_traces(channel_ids, start_frame, end_frame): the frames
\* start_frame .. end_frame - 1 of each requested channel.
get_traces(tr, channel_ids, start_frame, end_frame) ==
    [k \in DOMAIN channel_ids |->
        [j \in 1..(end_frame - start_frame) |-> tr[channel_ids[k]][start_frame + j - 1]]]

Zeros(num_channels, len) == [k \in 1..num_channels |-> [j \in 1..len |-> 0]]

\* The test on the reference frame, with the upper end included.
RefInRecording_Inclusive(reference_frame, nf) == 0 <= reference_frame /\ reference_frame <= nf

\* 0 <= reference_frames[i] < num_frames
RefInRecording(reference_frame, nf) == 0 <= reference_frame /\ reference_frame < nf

\* The adjustment for a window that starts before frame 0 moving
\* snippet_range[0] only, not snippet_buffer[0].
SnippetWindow_BufferNotShifted(reference_frame, before, after, nf) ==
    LET range0 == reference_frame - before
        range1 == reference_frame + after
        total == before + after
        lo == IF range0 < 0 THEN -range0 ELSE 0
        hi == IF range1 >= nf THEN range1 - nf ELSE 0
    IN [range |-> <<range0 + lo, range1 - hi>>, buffer |-> <<0, total - hi>>]

\* snippet_range and snippet_buffer after the two out-of-bounds adjustments.
SnippetWindow(reference_frame, before, after, nf) ==
    LET range0 == reference_frame - before
        range1 == reference_frame + after
        total == before + after
        lo == IF range0 < 0 THEN -range0 ELSE 0
        hi == IF range1 >= nf THEN range1 - nf ELSE 0
    IN [range |-> <<range0 + lo, range1 - hi>>, buffer |-> <<lo, total - hi>>]

\* One pass of the loop body: the chunk stored in snippets[i], the get_traces
\* call made for it (if any), and the exception of a slice assignment whose
\* two sides differ in length.
SnippetChunk(tr, nf, channel_ids, reference_frame, before, after) ==
    LET total == before + after
        zero == Zeros(Len(channel_ids), total)
    IN IF ~RefInRecording(reference_frame, nf)
       THEN [chunk |-> zero, reads |-> <<>>, exc |-> "none"]
       ELSE LET w == SnippetWindow(reference_frame, before, after, nf)
                b0 == w.buffer[1]
                b1 == w.buffer[2]
                got == get_traces(tr, channel_ids, w.range[1], w.range[2])
                read == <<[start_frame |-> w.range[1], end_frame |-> w.range[2],
                           buffer |-> w.buffer]>>
            IN IF b1 - b0 # w.range[2] - w.range[1]
               THEN [chunk |-> zero, reads |-> read, exc |-> "ValueError"]
               ELSE [chunk |-> [k \in DOMAIN channel_ids |->
                                  [j \in 1..total |->
                                     IF b0 < j /\ j <= b1 THEN got[k][j - b0] ELSE 0]],
                     reads |-> read, exc |-> "none"]

RECURSIVE SnippetLoop(_, _, _, _, _, _, _, _)
\* for i in range(num_snippets), from position i on (1-based), with the
\* snippets and the get_traces calls accumulated so far.
SnippetLoop(tr, nf, channel_ids, reference_frames, before, after, i, acc) ==
    IF i > Len(reference_frames)
    THEN acc
    ELSE LET c == SnippetChunk(tr, nf, channel_ids, reference_frames[i], before, after)
         IN IF c.exc # "none"
            THEN [acc EXCEPT !.exc = c.exc, !.reads = acc.reads \o <<c.reads>>]
            ELSE SnippetLoop(tr, nf, channel_ids, reference_frames, before, after, i + 1,
                             [acc EXCEPT !.snippets = acc.snippets \o <<c.chunk>>,
                                         !.reads = acc.reads \o <<c.reads>>])

\* get_snippets(reference_frames, snippet_len, channel_ids): snippets[i] is
\* the chunk of reference_frames[i], reads[i] the get_traces calls made for it.
GetSnippets(tr, nf, reference_frames, snippet_len, arg) ==
    LET before == SnippetLenBefore(snippet_len)
        after == SnippetLenAfter(snippet_len)
        channel_ids == IF arg.kind = "None" THEN ChannelIdList("self") ELSE arg.ids
    IN SnippetLoop(tr, nf, channel_ids, reference_frames, before, after, 1,
                   [snippets |-> <<>>, reads |-> <<>>, exc |-> "none"])

(***************************************************************************)
(* Inputs and action of get_snippets. The function keeps no state between  *)
(* calls, so one call is modelled: the recording and the arguments are     *)
(* drawn in the initial state and the action performs the call.            *)
(***************************************************************************)
\* Reference frames from one frame before the recording to one behind it.
ReferenceFrames == (0 - 1)..MaxFrames

ReferenceLists == UNION {[1..n -> ReferenceFrames] : n \in 0..MaxRefs}

SnippetLens ==
    {ScalarLen(n) : n \in 0..MaxSnippetLen}
    \cup {PairLen(b, a) : b \in 0..MaxSide, a \in 0..MaxSide}

SnippetChannelArgs == {NoneArg, ListArg(<<2>>)}

get_snippets ==
    /\ ~snippet_out.done
    /\ \E o \in {GetSnippets(traces, num_frames, snippet_out.reference_frames,
                             snippet_out.snippet_len, snippet_out.channel_ids)} :
          snippet_out' = [snippet_out EXCEPT !.done = TRUE, !.snippets = o.snippets,
                                             !.reads = o.reads, !.exc = o.exc]
    /\ result' = [op |-> "get_snippets", exc |-> snippet_out'.exc]
    /\ UNCHANGED <<channel_properties, epochs, num_frames, traces>>

InitSnippets ==
    /\ channel_properties = [r \in Extractors |-> EmptyDict]
    /\ epochs = <<>>
    /\ result = InitResult
    /\ num_frames \in 0..MaxFrames
    /\ traces = [c \in get_channel_ids("self") |->
                    [f \in 0..(num_frames - 1) |-> Sample(c, f)]]
    /\ \E rf \in ReferenceLists, sl \in SnippetLens, a \in SnippetChannelArgs :
          snippet_out = [reference_frames |-> rf, snippet_len |-> sl, channel_ids |-> a,
                         done |-> FALSE, snippets |-> <<>>, reads |-> <<>>,
                         exc |-> "none"]

NextSnippets == get_snippets

SpecSnippets == InitSnippets /\ [][NextSnippets]_vars

(***************************************************************************)
(* Properties of get_snippets                                              *)
(***************************************************************************)
\* The window the call was asked for.
AskedBefore ==
    IF snippet_out.snippet_len.kind = "pair"
    THEN snippet_out.snippet_len.before
    ELSE (snippet_out.snippet_len.len + 1) \div 2

AskedAfter ==
    IF snippet_out.snippet_len.kind = "pair"
    THEN snippet_out.snippet_len.after
    ELSE snippet_out.snippet_len.len - AskedBefore

AskedChannels ==
    IF snippet_out.channel_ids.kind = "None"
    THEN ChannelIdList("self")
    ELSE snippet_out.channel_ids.ids

InRecording(f) == 0 <= f /\ f < num_frames

\* C8: for a reference frame r in [0, num_frames) the snippet has
\* before + after samples for each requested channel, and sample j is the
\* trace at frame r - before + j where that frame is in [0, num_frames) and
\* zero elsewhere.
C8_SnippetSamples ==
    snippet_out.done =>
       /\ snippet_out.exc = "none"
       /\ Len(snippet_out.snippets) = Len(snippet_out.reference_frames)
       /\ \A i \in DOMAIN snippet_out.reference_frames :
            LET r == snippet_out.reference_frames[i]
                chunk == snippet_out.snippets[i]
            IN InRecording(r) =>
                 /\ Len(chunk) = Len(AskedChannels)
                 /\ \A k \in DOMAIN AskedChannels :
                      /\ Len(chunk[k]) = AskedBefore + AskedAfter
                      /\ \A j \in 0..(AskedBefore + AskedAfter - 1) :
                           chunk[k][j + 1] =
                             IF InRecording(r - AskedBefore + j)
                             THEN traces[AskedChannels[k]][r - AskedBefore + j]
                             ELSE 0

\* num_frames = 3 and snippet_len = 4: frame 0 gives two zeros and then the
\* frames 0..1, the last frame gives the frames 0..2 and then one zero.
C8_Witness ==
    /\ snippet_out.done
    /\ num_frames = 3
    /\ snippet_out.snippet_len = ScalarLen(4)
    /\ snippet_out.reference_frames = <<0, 2>>
    /\ snippet_out.channel_ids = NoneArg
    /\ snippet_out.snippets[1][1] = <<0, 0, Sample(1, 0), Sample(1, 1)>>
    /\ snippet_out.snippets[2][2] = <<Sample(2, 0), Sample(2, 1), Sample(2, 2), 0>>

\* C9: for a reference frame outside [0, num_frames) the snippet is all
\* zeros and get_traces is not called for it, also when the window around it
\* overlaps the recording; there is one snippet per reference frame, at the
\* position of its reference frame.
C9_OutsideReferenceIsZero ==
    snippet_out.done =>
       /\ Len(snippet_out.snippets) = Len(snippet_out.reference_frames)
       /\ Len(snippet_out.reads) = Len(snippet_out.reference_frames)
       /\ \A i \in DOMAIN snippet_out.reference_frames :
            LET r == snippet_out.reference_frames[i]
            IN IF InRecording(r)
               THEN /\ Len(snippet_out.reads[i]) = 1
                    /\ snippet_out.reads[i][1].start_frame =
                         (IF r - AskedBefore < 0 THEN 0 ELSE r - AskedBefore)
               ELSE /\ snippet_out.reads[i] = <<>>
                    /\ snippet_out.snippets[i] =
                         Zeros(Len(AskedChannels), AskedBefore + AskedAfter)

\* Both reference frames are outside a recording of three frames, and both
\* windows, [1, 5) and [-3, 1), overlap it.
C9_Witness ==
    /\ snippet_out.done
    /\ num_frames = 3
    /\ snippet_out.snippet_len = PairLen(2, 2)
    /\ snippet_out.reference_frames = <<3, -1>>
    /\ snippet_out.snippets = <<Zeros(1, 4), Zeros(1, 4)>>
    /\ snippet_out.channel_ids = ListArg(<<2>>)

\* C16: get_snippets makes no out-of-bounds read. With before, after >= 0,
\* every reference frame in [0, num_frames) gets one get_traces call, with
\* 0 <= start_frame <= end_frame <= num_frames, written to the columns
\* [buf_start, buf_end) of the chunk with 0 <= buf_start <= buf_end <=
\* before + after and buf_end - buf_start = end_frame - start_frame, so the
\* slice assignment never fails.
C16_ReadsInBounds ==
    snippet_out.done =>
       /\ AskedBefore >= 0
       /\ AskedAfter >= 0
       /\ snippet_out.exc = "none"
       /\ Len(snippet_out.reads) = Len(snippet_out.reference_frames)
       /\ \A i \in DOMAIN snippet_out.reads :
            /\ InRecording(snippet_out.reference_frames[i]) =>
                  Len(snippet_out.reads[i]) = 1
            /\ \A k \in DOMAIN snippet_out.reads[i] :
                 LET rd == snippet_out.reads[i][k]
                     buf_start == rd.buffer[1]
                     buf_end == rd.buffer[2]
                 IN /\ 0 <= rd.start_frame
                    /\ rd.start_frame <= rd.end_frame
                    /\ rd.end_frame <= num_frames
                    /\ 0 <= buf_start
                    /\ buf_start <= buf_end
                    /\ buf_end <= AskedBefore + AskedAfter
                    /\ buf_end - buf_start = rd.end_frame - rd.start_frame

\* num_frames = 3, before = after = 2: the window of frame 1 is cut at both
\* ends of the recording, the window of frame 0 at the start.
C16_Witness ==
    /\ snippet_out.done
    /\ num_frames = 3
    /\ snippet_out.snippet_len = PairLen(2, 2)
    /\ snippet_out.reference_frames = <<1, 0>>
    /\ snippet_out.reads[1] = <<[start_frame |-> 0, end_frame |-> 3, buffer |-> <<1, 4>>]>>
    /\ snippet_out.reads[2] = <<[start_frame |-> 0, end_frame |-> 2, buffer |-> <<2, 4>>]>>

(***************************************************************************)
(* The typed setters: set_channel_locations, set_channel_groups and        *)
(* set_channel_gains. A Python value is a record of its type and a number  *)
(* that tells values of one type apart.                                    *)
(***************************************************************************)
PyInt(n) == [type |-> "int", v |-> n]

PyFloat(n) == [type |-> "float", v |-> n]

PyStr(n) == [type |-> "str", v |-> n]

PyList(n) == [type |-> "list", v |-> n]

\* isinstance(x, (list, np.ndarray))
IsArrayLike(x) == x.type \in {"list", "ndarray"}

\* isinstance(x, (int, np.integer))
IsPyInt(x) == x.type = "int"

\* isinstance(x, (int, np.integer, float, np.float64))
IsNumber(x) == x.type \in {"int", "float"}

\* float(x)
Float(x) == PyFloat(x.v)

\* np.asarray(x).astype(float)
AsFloatArray(x) == [type |-> "ndarray", v |-> x.v]

RECURSIVE LocationsLoop(_, _, _, _, _)
\* for i in range(len(channel_ids)) of set_channel_locations, from the
\* 1-based position i on.
LocationsLoop(cp, r, channel_ids, locations, i) ==
    IF i > Len(channel_ids)
    THEN Ok(cp)
    ELSE IF IsArrayLike(locations[i])
    THEN LET o == SetChannelProperty(cp, r, channel_ids[i], "location",
                                     AsFloatArray(locations[i]))
         IN IF o.exc # "none"
            THEN o
            ELSE LocationsLoop(o.cp, r, channel_ids, locations, i + 1)
    ELSE Raise(cp, "TypeError", "must be an array_like")

SetChannelLocations(cp, r, locations, arg) ==
    LET channel_ids == IF arg.kind = "None" THEN ChannelIdList(r) ELSE arg.ids
    IN IF Len(channel_ids) = Len(locations)
       THEN LocationsLoop(cp, r, channel_ids, locations, 1)
       ELSE Raise(cp, "ValueError", "channel_ids and locations must have same length")

RECURSIVE GroupsLoop_NoTypeCheck(_, _, _, _, _)
\* GroupsLoop storing each group without the test of its type.
GroupsLoop_NoTypeCheck(cp, r, channel_ids, groups, i) ==
    IF i > Len(channel_ids)
    THEN Ok(cp)
    ELSE LET o == SetChannelProperty(cp, r, channel_ids[i], "group", groups[i])
         IN IF o.exc # "none"
            THEN o
            ELSE GroupsLoop_NoTypeCheck(o.cp, r, channel_ids, groups, i + 1)

RECURSIVE GroupsLoop(_, _, _, _, _)
\* for i in range(len(channel_ids)) of set_channel_groups.
GroupsLoop(cp, r, channel_ids, groups, i) ==
    IF i > Len(channel_ids)
    THEN Ok(cp)
    ELSE IF IsPyInt(groups[i])
    THEN LET o == SetChannelProperty(cp, r, channel_ids[i], "group", groups[i])
         IN IF o.exc # "none"
            THEN o
            ELSE GroupsLoop(o.cp, r, channel_ids, groups, i + 1)
    ELSE Raise(cp, "TypeError", "must be an int")

SetChannelGroups(cp, r, groups, arg) ==
    LET channel_ids == IF arg.kind = "None" THEN ChannelIdList(r) ELSE arg.ids
    IN IF Len(channel_ids) = Len(groups)
       THEN GroupsLoop(cp, r, channel_ids, groups, 1)
       ELSE Raise(cp, "ValueError", "channel_ids and groups must have same length")

\* The gains argument: one value, or a list of values.
ScalarGains(x) == [kind |-> "scalar", x |-> x, l |-> <<>>]

ListGains(l) == [kind |-> "list", x |-> PyInt(0), l |-> l]

RECURSIVE ScalarGainLoop(_, _, _, _, _)
\* The loop of set_channel_gains for one gain given for all channels.
ScalarGainLoop(cp, r, channel_ids, gain, i) ==
    IF i > Len(channel_ids)
    THEN Ok(cp)
    ELSE LET o == SetChannelProperty(cp, r, channel_ids[i], "gain", gain)
         IN IF o.exc # "none"
            THEN o
            ELSE ScalarGainLoop(o.cp, r, channel_ids, gain, i + 1)

RECURSIVE GainsLoop(_, _, _, _, _)
\* The loop of set_channel_gains for a list of gains.
GainsLoop(cp, r, channel_ids, gains, i) ==
    IF i > Len(channel_ids)
    THEN Ok(cp)
    ELSE IF IsNumber(gains[i])
    THEN LET o == SetChannelProperty(cp, r, channel_ids[i], "gain", Float(gains[i]))
         IN IF o.exc # "none"
            THEN o
            ELSE GainsLoop(o.cp, r, channel_ids, gains, i + 1)
    ELSE Raise(cp, "TypeError", "all gains must be floats or ints")

SetChannelGains(cp, r, channel_ids, gains) ==
    IF gains.kind = "scalar" /\ IsNumber(gains.x)
    THEN ScalarGainLoop(cp, r, channel_ids, Float(gains.x), 1)
    ELSE IF gains.kind = "list"
    THEN IF Len(channel_ids) = Len(gains.l)
         THEN GainsLoop(cp, r, channel_ids, gains.l, 1)
         ELSE Raise(cp, "ValueError", "channel_ids and gains must have same length")
    ELSE Raise(cp, "TypeError", "gains must be a int/float or a list of int/floats")

(***************************************************************************)
(* Inputs and actions of the typed setters, called on the extractor "self".*)
(***************************************************************************)
MaxValues == 2

\* Channel ids given to the setters: the channels of "self" and the id 4
\* that is no channel of it.
SetterChannelIds == {1, 2, 4}

SetterIdLists == UNION {[1..n -> SetterChannelIds] : n \in 0..MaxValues}

SetterIdArgs == {NoneArg} \cup {ListArg(l) : l \in SetterIdLists}

ValueLists(V) == UNION {[1..n -> V] : n \in 0..MaxValues}

\* A location given as a list, and an int given where a location is due.
LocationValues == {PyList(1), PyInt(1)}

GroupValues == {PyInt(1), PyStr(1)}

GainValues == {PyInt(1), PyFloat(2), PyStr(1)}

GainsArgs ==
    {ScalarGains(x) : x \in GainValues} \cup {ListGains(l) : l \in ValueLists(GainValues)}

set_channel_locations ==
    \E a \in SetterIdArgs, locations \in ValueLists(LocationValues) :
        \E o \in {SetChannelLocations(channel_properties, "self", locations, a)} :
           /\ channel_properties' = o.cp
           /\ result' = Outcome("set_channel_locations", o)
           /\ UNCHANGED OtherParts

set_channel_groups ==
    \E a \in SetterIdArgs, groups \in ValueLists(GroupValues) :
        \E o \in {SetChannelGroups(channel_properties, "self", groups, a)} :
           /\ channel_properties' = o.cp
           /\ result' = Outcome("set_channel_groups", o)
           /\ UNCHANGED OtherParts

set_channel_gains ==
    \E channel_ids \in SetterIdLists, gains \in GainsArgs :
        \E o \in {SetChannelGains(channel_properties, "self", channel_ids, gains)} :
           /\ channel_properties' = o.cp
           /\ result' = Outcome("set_channel_gains", o)
           /\ UNCHANGED OtherParts

InitSetters ==
    /\ InitStores
    /\ num_frames = 0
    /\ traces = <<>>
    /\ snippet_out = <<>>

NextSetters ==
    \/ set_channel_locations
    \/ set_channel_groups
    \/ set_channel_gains

SpecSetters == InitSetters /\ [][NextSetters]_vars

(***************************************************************************)
(* Properties of the typed setters                                         *)
(***************************************************************************)
\* The channel ids a setter call goes through.
IdsOf(a) == IF a.kind = "None" THEN ChannelIdList("self") ELSE a.ids

ValidId(c) == c \in get_channel_ids("self")

====
